---- MODULE Spec2Model ----
(***************************************************************************)
(* Model of src/src/gabor_functions.py: the Gabor kernel, the Log-Gabor    *)
(* kernel, the Butterworth low-pass filter and the two filter-bank         *)
(* builders.                                                               *)
(*                                                                         *)
(* Conventions.                                                            *)
(*  - Python 3 semantics: "/" is true division, int() truncates.           *)
(*  - NumPy default error state: a division by zero or a log of a          *)
(*    non-positive number inside NumPy yields inf/nan and a warning, it    *)
(*    does not raise.  A Python scalar division by zero raises             *)
(*    ZeroDivisionError.                                                   *)
(*  - A grid is [rows, cols, cell] with cell indexed by <<i, j>>, both     *)
(*    0-based as in the source.                                            *)
(*  - Coordinates produced by np.arange(-n/2, n/2) are half-integers for   *)
(*    odd n; they are stored doubled (X = 2x) so that they stay integers.  *)
(*  - Angles are fractions <<p, q>> of a full turn (theta = 2*pi*p/q).     *)
(*  - A float that is the result of exp/log/cos is kept as a class         *)
(*    ("zero", "pos", "nan") together with the term that produced it.      *)
(***************************************************************************)
EXTENDS Integers, Naturals, Sequences, FiniteSets, TLC

\* ------------------------------------------------------------------ bounds
MaxDim == 3
MaxScales == 2
MaxOrient == 3
Resolution == 1000

\* ------------------------------------------------------- program constants
LP_CUTOFF100 == 45
LP_ORDER == 15

\* ------------------------------------------------------------ arithmetic
Min2(a, b) == IF a <= b THEN a ELSE b

\* int(n / 2) for an integer n: true division, truncation toward zero
int_half(n) == IF n >= 0 THEN n \div 2 ELSE -((-n) \div 2)

RECURSIVE IPow(_, _)
\* Python b ** e for integer e >= 0  (0 ** 0 = 1)
IPow(b, e) == IF e = 0 THEN 1 ELSE b * IPow(b, e - 1)

\* sign-normalised rational <<num, den>> with den > 0
Rat(n, d) == IF d < 0 THEN <<-n, -d>> ELSE <<n, d>>

RatSign(r) == IF r[1] > 0 THEN 1 ELSE IF r[1] < 0 THEN -1 ELSE 0

\* Bhaskara's rational approximation of sin(pi * a / b), 0 <= a <= b, fixed
\* point with Resolution units per 1.0 (exact at 0, 1/6, 1/2, 5/6, 1)
Bhaskara(a, b) == (Resolution * 16 * a * (b - a)) \div (5 * b * b - 4 * a * (b - a))

\* np.sin(2*pi*p/q), fixed point
np_sin(p, q) ==
    LET a == (2 * p) % (2 * q)
    IN  IF a <= q THEN Bhaskara(a, q) ELSE -Bhaskara(a - q, q)

\* np.cos(2*pi*p/q) = sin(2*pi*(p/q + 1/4)), fixed point
np_cos(p, q) == np_sin(4 * p + q, 4 * q)

\* ------------------------------------------------------------------ grids
Idx(r, c) == (0 .. (r - 1)) \X (0 .. (c - 1))

EmptyGrid == [rows |-> 0, cols |-> 0, cell |-> [ij \in {} |-> 0]]

NoError == "none"

\* ndarray.itemset(i, j, v): IndexError when the index is out of bounds
ItemsetFails(g, i, j) ==
    LET ii == IF i < 0 THEN i + g.rows ELSE i
        jj == IF j < 0 THEN j + g.cols ELSE j
    IN  ~ (ii >= 0 /\ ii < g.rows /\ jj >= 0 /\ jj < g.cols)

Itemset(g, i, j, v) ==
    LET ii == IF i < 0 THEN i + g.rows ELSE i
        jj == IF j < 0 THEN j + g.cols ELSE j
    IN  [g EXCEPT !.cell = [ij \in DOMAIN g.cell |->
                              IF ij = <<ii, jj>> THEN v ELSE g.cell[ij]]]

\* np.arange(-n / 2, n / 2): ceil(n) elements when n > 0, none otherwise;
\* element k is -n/2 + k, stored doubled
np_arange(n) ==
    LET len == IF n > 0 THEN n ELSE 0
    IN  [k \in 1 .. len |-> 2 * (k - 1) - n]

\* np.meshgrid(xs, ys): shape (len(ys), len(xs)), x[i, j] = xs[j], y[i, j] = ys[i]
np_meshgrid(xs, ys) ==
    [rows |-> Len(ys), cols |-> Len(xs),
     cell |-> [ij \in Idx(Len(ys), Len(xs)) |->
                 [X |-> xs[ij[2] + 1], Y |-> ys[ij[1] + 1]]]]

\* ----------------------------------------------------------------- floats
Zero == [c |-> "zero", t |-> <<>>]
NaN == [c |-> "nan", t |-> <<>>]
Pos(term) == [c |-> "pos", t |-> term]

\* cell-wise product of two non-negative floats
FMul(a, b) ==
    IF a.c = "nan" \/ b.c = "nan" THEN NaN
    ELSE IF a.c = "zero" \/ b.c = "zero" THEN Zero
    ELSE Pos(a.t \o b.t)

GridMul(g, h) ==
    [rows |-> g.rows, cols |-> g.cols,
     cell |-> [ij \in DOMAIN g.cell |-> FMul(g.cell[ij], h.cell[ij])]]

\* ------------------------------------------------------- get_gabor_kernel
\* np.zeros((height, width)) raises ValueError on a negative dimension
ZerosFails(height, width) == height < 0 \/ width < 0

\* shape of np.zeros((height, width))
ZerosShape_swapped(height, width) == <<width, height>>

ZerosShape(height, width) == <<height, width>>

\* const_x = -0.5 / (sigma ** 2) raises ZeroDivisionError
ConstXFails(sigma) == sigma * sigma = 0

\* const_y = -0.5 / ((float(sigma) / gamma) ** 2) raises ZeroDivisionError
ConstYFails(sigma, gamma) == gamma = 0 \/ sigma = 0

\* const_scale = np.pi * 2.0 / lambd raises ZeroDivisionError
ConstScaleFails_np(lambd) == FALSE

ConstScaleFails(lambd) == lambd = 0

\* symmetric reference of index k
Offset_ceil(k, size) == k - (size - int_half(size))

Offset(k, size) == k - int_half(size)

\* one cell of the kernel: the locals y, x, xr, yr (xr, yr in fixed point) and
\* value = exp(envNum / envDen) * cos(2*pi * phNum / phDen)
GaborCell(i, j, width, height, sigma, theta, lambd, gamma, psi) ==
    LET costheta == np_cos(theta[1], theta[2])
        sintheta == np_sin(theta[1], theta[2])
        y == Offset(i, height)
        x == Offset(j, width)
        xr == x * costheta + y * sintheta
        yr == (-x) * sintheta + y * costheta
    IN  [y |-> y, x |-> x, xr |-> xr, yr |-> yr,
         value |-> [envNum |-> -(xr * xr + gamma * gamma * yr * yr),
                    envDen |-> 2 * sigma * sigma * Resolution * Resolution,
                    phNum |-> 4 * xr + psi * Resolution * lambd,
                    phDen |-> 4 * Resolution * lambd]]

Raise(e) == [err |-> e, kernel |-> EmptyGrid, cells |-> EmptyGrid]

\* ksize = <<width, height>>, theta a turn fraction, psi in quarter turns
get_gabor_kernel(ksize, sigma, theta, lambd, gamma, psi) ==
    LET width == ksize[1]
        height == ksize[2]
        shape == ZerosShape(height, width)
        cells == [rows |-> shape[1], cols |-> shape[2],
                  cell |-> [ij \in Idx(shape[1], shape[2]) |->
                              GaborCell(ij[1], ij[2], width, height,
                                        sigma, theta, lambd, gamma, psi)]]
    IN  IF ZerosFails(height, width) THEN Raise("ValueError")
        ELSE IF ConstXFails(sigma) THEN Raise("ZeroDivisionError")
        ELSE IF ConstYFails(sigma, gamma) THEN Raise("ZeroDivisionError")
        ELSE IF ConstScaleFails(lambd) THEN Raise("ZeroDivisionError")
        ELSE [err |-> NoError,
              kernel |-> [cells EXCEPT !.cell =
                            [ij \in DOMAIN cells.cell |-> cells.cell[ij].value]],
              cells |-> cells]

\* ------------------------------------------------------- _low_pass_filter
\* "if cutoff < 0 or cutoff > 0.5: raise"; cutoff in hundredths
CutoffFails(cutoff100) == cutoff100 < 0 \/ cutoff100 > 50

\* "if n < 1: raise"
OrderFails(n) == n < 1

\* radius = np.hypot(x, y) with x = array_cols / cols, y = array_rows / rows,
\* kept as the exact square num / den
LPRadius(fsize) ==
    LET cols == fsize[1]
        rows == fsize[2]
        m == np_meshgrid(np_arange(cols), np_arange(rows))
    IN  [m EXCEPT !.cell = [ij \in DOMAIN m.cell |->
           [num |-> m.cell[ij].X * m.cell[ij].X * rows * rows
                    + m.cell[ij].Y * m.cell[ij].Y * cols * cols,
            den |-> 4 * cols * cols * rows * rows]]]

\* f = 1.0 / (1.0 + (radius / cutoff) ** (2 * n)); radius / 0 is inf, or nan
\* when radius is 0
LPValue(r, cutoff100, n) ==
    IF cutoff100 # 0 THEN Pos(<<"lp", r.num, r.den, cutoff100, n>>)
    ELSE IF r.num = 0 THEN NaN
    ELSE Zero

LPFilter(fsize, cutoff100, n) ==
    LET radius == LPRadius(fsize)
    IN  [radius EXCEPT !.cell = [ij \in DOMAIN radius.cell |->
                                   LPValue(radius.cell[ij], cutoff100, n)]]

low_pass_filter(fsize, cutoff100, n) ==
    IF CutoffFails(cutoff100) THEN Raise("Exception")
    ELSE IF OrderFails(n) THEN Raise("Exception")
    ELSE [err |-> NoError, kernel |-> LPFilter(fsize, cutoff100, n),
          cells |-> EmptyGrid]

\* --------------------------------------------------- get_log_gabor_kernel
One == [num |-> 1, den |-> 1]

\* x, y = np.meshgrid(array_cols / min, array_rows / min), doubled numerators
LGMesh(ksize) == np_meshgrid(np_arange(ksize[1]), np_arange(ksize[2]))

\* radius = np.hypot(x, y), kept as the exact square num / den
LGRadius(ksize) ==
    LET m == LGMesh(ksize)
        mn == Min2(ksize[1], ksize[2])
    IN  [m EXCEPT !.cell = [ij \in DOMAIN m.cell |->
           [num |-> m.cell[ij].X * m.cell[ij].X + m.cell[ij].Y * m.cell[ij].Y,
            den |-> 4 * mn * mn]]]

\* index written by both itemset calls: (int(rows / 2), int(cols / 2))
CentreRow(ksize) == int_half(ksize[2])

CentreCol(ksize) == int_half(ksize[1])

\* radius.itemset(int(rows / 2), int(cols / 2), 1.0)
PatchRadius_skip(radius, ksize) == radius

PatchRadius(radius, ksize) ==
    Itemset(radius, CentreRow(ksize), CentreCol(ksize), One)

\* class of radius / f0
RatioClass(r, f0) ==
    IF RatSign(f0) > 0 THEN (IF r.num = 0 THEN "zero" ELSE "pos")
    ELSE IF RatSign(f0) = 0 THEN (IF r.num = 0 THEN "nan" ELSE "inf")
    ELSE (IF r.num = 0 THEN "negzero" ELSE "neg")

\* class of np.log(radius / f0); log is 0 exactly when radius = f0
LogClass(r, f0) ==
    LET q == RatioClass(r, f0)
    IN  IF q = "pos"
        THEN (IF r.num * f0[2] * f0[2] = f0[1] * f0[1] * r.den
              THEN "zero" ELSE "fin")
        ELSE IF q \in {"zero", "negzero"} THEN "ninf"
        ELSE IF q = "inf" THEN "inf"
        ELSE "nan"

\* class of lg_radial_numerator = -(np.log(radius / f0)) ** 2
NumClass(r, f0) ==
    LET l == LogClass(r, f0)
    IN  IF l = "zero" THEN "zero"
        ELSE IF l = "fin" THEN "neg"
        ELSE IF l \in {"ninf", "inf"} THEN "ninf"
        ELSE "nan"

\* class of lg_radial_denominator = 2 * np.log(sigma_over_f) ** 2
DenClass(sof) ==
    IF RatSign(sof) < 0 THEN "nan"
    ELSE IF RatSign(sof) = 0 THEN "inf"
    ELSE IF sof[1] = sof[2] THEN "zero"
    ELSE "pos"

\* np.exp(lg_radial_numerator / lg_radial_denominator) for one cell
RadialValue(r, f0, sof) ==
    LET n == NumClass(r, f0)
        d == DenClass(sof)
        term == <<"radial", r.num, r.den, f0, sof>>
    IN  IF n = "nan" \/ d = "nan" THEN NaN
        ELSE IF d = "pos" THEN (IF n = "ninf" THEN Zero ELSE Pos(term))
        ELSE IF d = "zero" THEN (IF n = "zero" THEN NaN ELSE Zero)
        ELSE (IF n = "ninf" THEN NaN ELSE Pos(term))

Radial(radius, f0, sof) ==
    [radius EXCEPT !.cell = [ij \in DOMAIN radius.cell |->
                               RadialValue(radius.cell[ij], f0, sof)]]

\* lg_radial.itemset(int(rows / 2), int(cols / 2), 0.0)
ResetRadial_skip(lg_radial, ksize) == lg_radial

ResetRadial(lg_radial, ksize) ==
    Itemset(lg_radial, CentreRow(ksize), CentreCol(ksize), Zero)

\* dtheta = abs(np.arctan2(ds, dc)) is exactly 0.0 when np.arctan2(-y, x) is
\* the float theta0: on the ray of theta0 for theta0 in {0, 1/8, 1/4, 3/8} turn
\* (arctan2(-0.0, x) is -0.0 for x >= 0 and -pi for x < 0)
DthetaZero(X, Y, theta0) ==
    LET p == theta0[1]
        q == theta0[2]
    IN  \/ p = 0 /\ Y = 0 /\ X >= 0
        \/ 8 * p = q /\ X = -Y /\ X > 0
        \/ 4 * p = q /\ X = 0 /\ Y < 0
        \/ 8 * p = 3 * q /\ X = Y /\ Y < 0

\* np.exp((-dtheta ** 2) / (2 * sigma_theta0 ** 2)) for one cell
AngularValue(X, Y, mn, theta0, sigma_theta0) ==
    IF sigma_theta0 * sigma_theta0 # 0
    THEN Pos(<<"angular", X, Y, mn, theta0, sigma_theta0 * sigma_theta0>>)
    ELSE IF DthetaZero(X, Y, theta0) THEN NaN
    ELSE Zero

Angular(ksize, theta0, sigma_theta0) ==
    LET m == LGMesh(ksize)
        mn == Min2(ksize[1], ksize[2])
    IN  [m EXCEPT !.cell = [ij \in DOMAIN m.cell |->
           AngularValue(m.cell[ij].X, m.cell[ij].Y, mn, theta0, sigma_theta0)]]

\* lp = _low_pass_filter(ksize, 0.45, 15, ktype)
LGLowPass(ksize) == low_pass_filter(ksize, LP_CUTOFF100, LP_ORDER)

\* kernel = lg_radial * lg_angular * lp
LGProduct(lg_radial, lg_angular, lp) == GridMul(GridMul(lg_radial, lg_angular), lp)

\* the whole call; f0 and sigma_over_f are rationals, theta0 a turn fraction
get_log_gabor_kernel(ksize, f0, theta0, sigma_over_f, sigma_theta0) ==
    LET radius == LGRadius(ksize)
        lg_radial == ResetRadial(Radial(PatchRadius(radius, ksize), f0, sigma_over_f), ksize)
        lg_angular == Angular(ksize, theta0, sigma_theta0)
        lp == LGLowPass(ksize)
    IN  IF ItemsetFails(radius, CentreRow(ksize), CentreCol(ksize))
        THEN Raise("IndexError")
        ELSE IF lp.err # NoError THEN Raise(lp.err)
        ELSE [err |-> NoError,
              kernel |-> LGProduct(lg_radial, lg_angular, lp.kernel),
              cells |-> EmptyGrid]

\* ----------------------------------------------------- filter-bank bodies
\* sigma = min_sigma + scale
GaborBankSigma_from1(min_sigma, scale) == min_sigma + scale + 1

GaborBankSigma(min_sigma, scale) == min_sigma + scale

\* lambd = sigma * scale_factor
GaborBankLambd(sigma, scale_factor) == sigma * scale_factor

\* theta = 2 * np.pi * (orientation / float(n_orientations))
BankTheta(orientation, n_orientations) == <<orientation, n_orientations>>

\* wavelength = min_wavelength * scale_factor ** scale, scale_factor rational
LogBankWavelength(min_wavelength, scale_factor, scale) ==
    <<min_wavelength * IPow(scale_factor[1], scale), IPow(scale_factor[2], scale)>>

\* f0 = 1.0 / wavelength raises ZeroDivisionError
LogBankF0Fails(wavelength) == wavelength[1] = 0

LogBankF0(wavelength) == Rat(wavelength[2], wavelength[1])

\* body of the Gabor bank loop for one (scale, orientation) pair
GaborBankCall(a, scale, orientation) ==
    LET sigma == GaborBankSigma(a.min_sigma, scale)
        lambd == GaborBankLambd(sigma, a.scale_factor)
        theta == BankTheta(orientation, a.n_orientations)
    IN  get_gabor_kernel(a.ksize, sigma, theta, lambd, a.gamma, a.psi)

\* body of the Log-Gabor bank loop for one (scale, orientation) pair
LogBankCall(a, scale, orientation) ==
    LET wavelength == LogBankWavelength(a.min_wavelength, a.scale_factor_r, scale)
        theta0 == BankTheta(orientation, a.n_orientations)
    IN  IF LogBankF0Fails(wavelength) THEN Raise("ZeroDivisionError")
        ELSE get_log_gabor_kernel(a.ksize, LogBankF0(wavelength), theta0,
                                  a.sigma_over_f, a.sigma_theta0)

\* an exception of the inner call is not caught: it leaves the loop
BankOutcome_swallow(r) == "loop"

BankOutcome(r) == IF r.err # NoError THEN "raised" ELSE "loop"

\* the pair after (scale, orientation) in the nested range loops
NextPair(scale, orientation, n_orientations) ==
    IF orientation + 1 < n_orientations
    THEN <<scale, orientation + 1>>
    ELSE <<scale + 1, 0>>

\* ----------------------------------------------------------------- inputs
Dims == (0 - 1) .. MaxDim

Sizes == Dims \X Dims

DefaultArgs ==
    [ksize |-> <<1, 1>>, sigma |-> 1, theta |-> <<0, 1>>, lambd |-> 3,
     gamma |-> 1, psi |-> 0, f0 |-> <<1, 3>>, theta0 |-> <<0, 1>>,
     sigma_over_f |-> <<3, 4>>, sigma_theta0 |-> 1, cutoff100 |-> 45,
     n |-> 1, n_scales |-> 0, n_orientations |-> 0, min_sigma |-> 1,
     scale_factor |-> 3, scale_factor_r |-> <<8, 5>>, min_wavelength |-> 3]

GaborArgs ==
    {[DefaultArgs EXCEPT !.ksize = k, !.sigma = s, !.theta = t, !.lambd = l,
                         !.gamma = g, !.psi = p] :
        k \in Sizes, s \in {0, 1, 2}, t \in {<<0, 1>>, <<1, 8>>, <<1, 3>>},
        l \in {0, 3}, g \in {0, 1}, p \in {0, 1}}

LogGaborArgs ==
    {[DefaultArgs EXCEPT !.ksize = k, !.f0 = f, !.theta0 = t,
                         !.sigma_over_f = b, !.sigma_theta0 = st] :
        k \in Sizes, f \in {<<-1, 3>>, <<0, 1>>, <<1, 3>>, <<1, 2>>},
        t \in {<<0, 1>>, <<1, 4>>, <<1, 3>>},
        b \in {<<-1, 1>>, <<0, 1>>, <<3, 4>>, <<1, 1>>}, st \in {-1, 0, 1}}

LowPassArgs ==
    {[DefaultArgs EXCEPT !.ksize = k, !.cutoff100 = c, !.n = n] :
        k \in Sizes, c \in {-10, 0, 25, 45, 50, 60}, n \in {-1, 0, 1, 15}}

GaborBankArgs ==
    {[DefaultArgs EXCEPT !.ksize = k, !.n_scales = S, !.n_orientations = O,
                         !.min_sigma = ms, !.scale_factor = sf, !.gamma = g,
                         !.psi = 1] :
        k \in Sizes, S \in 0 .. MaxScales, O \in 0 .. MaxOrient,
        ms \in {-1, 0, 1}, sf \in {0, 3}, g \in {0, 1}}

LogBankArgs ==
    {[DefaultArgs EXCEPT !.ksize = k, !.n_scales = S, !.n_orientations = O,
                         !.min_wavelength = mw, !.scale_factor_r = sf] :
        k \in Sizes, S \in 0 .. MaxScales, O \in 0 .. MaxOrient,
        mw \in {0, 3}, sf \in {<<0, 1>>, <<8, 5>>, <<2, 1>>}}

\* ------------------------------------------------------------------ state
VARIABLES op, args, pc, err, cells, radius, lg_radial, lg_angular, lp,
          kernel, scale, orientation, filters, bank

vars == <<op, args, pc, err, cells, radius, lg_radial, lg_angular, lp,
          kernel, scale, orientation, filters, bank>>

Init ==
    /\ \/ op = "gabor" /\ args \in GaborArgs
       \/ op = "loggabor" /\ args \in LogGaborArgs
       \/ op = "lowpass" /\ args \in LowPassArgs
       \/ op = "gaborbank" /\ args \in GaborBankArgs
       \/ op = "logbank" /\ args \in LogBankArgs
    /\ pc = "start"
    /\ err = NoError
    /\ cells = EmptyGrid
    /\ radius = EmptyGrid
    /\ lg_radial = EmptyGrid
    /\ lg_angular = EmptyGrid
    /\ lp = EmptyGrid
    /\ kernel = EmptyGrid
    /\ scale = 0
    /\ orientation = 0
    /\ filters = <<>>
    /\ bank = <<>>

\* ------------------------------------------------------- get_gabor_kernel
GaborKernelCall ==
    /\ op = "gabor" /\ pc = "start"
    /\ LET r == get_gabor_kernel(args.ksize, args.sigma, args.theta,
                                 args.lambd, args.gamma, args.psi)
       IN  /\ err' = r.err
           /\ cells' = r.cells
           /\ kernel' = r.kernel
           /\ pc' = IF r.err = NoError THEN "done" ELSE "raised"
    /\ UNCHANGED <<op, args, radius, lg_radial, lg_angular, lp, scale,
                   orientation, filters, bank>>

\* ------------------------------------------------------- _low_pass_filter
LowPassValidate ==
    /\ op = "lowpass" /\ pc = "start"
    /\ IF CutoffFails(args.cutoff100) \/ OrderFails(args.n)
       THEN pc' = "raised" /\ err' = "Exception"
       ELSE pc' = "lp_build" /\ err' = err
    /\ UNCHANGED <<op, args, cells, radius, lg_radial, lg_angular, lp, kernel,
                   scale, orientation, filters, bank>>

LowPassBuild ==
    /\ op = "lowpass" /\ pc = "lp_build"
    /\ radius' = LPRadius(args.ksize)
    /\ kernel' = LPFilter(args.ksize, args.cutoff100, args.n)
    /\ pc' = "done"
    /\ UNCHANGED <<op, args, err, cells, lg_radial, lg_angular, lp, scale,
                   orientation, filters, bank>>

\* --------------------------------------------------- get_log_gabor_kernel
LGGrid ==
    /\ op = "loggabor" /\ pc = "start"
    /\ radius' = LGRadius(args.ksize)
    /\ pc' = "lg_patch"
    /\ UNCHANGED <<op, args, err, cells, lg_radial, lg_angular, lp, kernel,
                   scale, orientation, filters, bank>>

LGPatch ==
    /\ op = "loggabor" /\ pc = "lg_patch"
    /\ IF ItemsetFails(radius, CentreRow(args.ksize), CentreCol(args.ksize))
       THEN pc' = "raised" /\ err' = "IndexError" /\ radius' = radius
       ELSE /\ pc' = "lg_radial" /\ err' = err
            /\ radius' = PatchRadius(radius, args.ksize)
    /\ UNCHANGED <<op, args, cells, lg_radial, lg_angular, lp, kernel, scale,
                   orientation, filters, bank>>

LGRadial ==
    /\ op = "loggabor" /\ pc = "lg_radial"
    /\ lg_radial' = Radial(radius, args.f0, args.sigma_over_f)
    /\ pc' = "lg_reset"
    /\ UNCHANGED <<op, args, err, cells, radius, lg_angular, lp, kernel,
                   scale, orientation, filters, bank>>

LGReset ==
    /\ op = "loggabor" /\ pc = "lg_reset"
    /\ lg_radial' = ResetRadial(lg_radial, args.ksize)
    /\ pc' = "lg_angular"
    /\ UNCHANGED <<op, args, err, cells, radius, lg_angular, lp, kernel,
                   scale, orientation, filters, bank>>

LGAngular ==
    /\ op = "loggabor" /\ pc = "lg_angular"
    /\ lg_angular' = Angular(args.ksize, args.theta0, args.sigma_theta0)
    /\ pc' = "lg_lowpass"
    /\ UNCHANGED <<op, args, err, cells, radius, lg_radial, lp, kernel,
                   scale, orientation, filters, bank>>

LGLowPassCall ==
    /\ op = "loggabor" /\ pc = "lg_lowpass"
    /\ LET r == LGLowPass(args.ksize)
       IN  /\ lp' = r.kernel
           /\ err' = r.err
           /\ pc' = IF r.err = NoError THEN "lg_product" ELSE "raised"
    /\ UNCHANGED <<op, args, cells, radius, lg_radial, lg_angular, kernel,
                   scale, orientation, filters, bank>>

LGReturn ==
    /\ op = "loggabor" /\ pc = "lg_product"
    /\ kernel' = LGProduct(lg_radial, lg_angular, lp)
    /\ pc' = "done"
    /\ UNCHANGED <<op, args, err, cells, radius, lg_radial, lg_angular, lp,
                   scale, orientation, filters, bank>>

\* ----------------------------------------------------------- filter banks
BankCall(a, s, o) ==
    IF op = "gaborbank" THEN GaborBankCall(a, s, o) ELSE LogBankCall(a, s, o)

\* filters = []
BankBegin ==
    /\ op \in {"gaborbank", "logbank"} /\ pc = "start"
    /\ filters' = <<>>
    /\ pc' = "loop"
    /\ UNCHANGED <<op, args, err, cells, radius, lg_radial, lg_angular, lp,
                   kernel, scale, orientation, bank>>

\* one pass through the body of the inner loop
BankStep(which) ==
    /\ op = which /\ pc = "loop"
    /\ scale < args.n_scales /\ orientation < args.n_orientations
    /\ LET r == BankCall(args, scale, orientation)
           out == BankOutcome(r)
           nxt == NextPair(scale, orientation, args.n_orientations)
       IN  /\ pc' = out
           /\ err' = IF out = "raised" THEN r.err ELSE err
           /\ filters' = IF r.err = NoError THEN Append(filters, r.kernel)
                         ELSE filters
           /\ scale' = IF out = "raised" THEN scale ELSE nxt[1]
           /\ orientation' = IF out = "raised" THEN orientation ELSE nxt[2]
    /\ UNCHANGED <<op, args, cells, radius, lg_radial, lg_angular, lp, kernel,
                   bank>>

GaborBankStep == BankStep("gaborbank")

LogBankStep == BankStep("logbank")

\* return filters
BankReturn ==
    /\ op \in {"gaborbank", "logbank"} /\ pc = "loop"
    /\ ~ (scale < args.n_scales /\ orientation < args.n_orientations)
    /\ bank' = filters
    /\ pc' = "done"
    /\ UNCHANGED <<op, args, err, cells, radius, lg_radial, lg_angular, lp,
                   kernel, scale, orientation, filters>>

Next ==
    \/ GaborKernelCall
    \/ LowPassValidate
    \/ LowPassBuild
    \/ LGGrid
    \/ LGPatch
    \/ LGRadial
    \/ LGReset
    \/ LGAngular
    \/ LGLowPassCall
    \/ LGReturn
    \/ BankBegin
    \/ GaborBankStep
    \/ LogBankStep
    \/ BankReturn

Spec == Init /\ [][Next]_vars

\* ================================================================= claims
Width == args.ksize[1]

Height == args.ksize[2]

IsBank == op \in {"gaborbank", "logbank"}

Terminal == pc \in {"done", "raised"}

Pairs == (0 .. (args.n_scales - 1)) \X (0 .. (args.n_orientations - 1))

\* the kernel the claim expects for pair (s, o), written out from the formulas
ExpectedKernel(s, o) ==
    IF op = "gaborbank"
    THEN get_gabor_kernel(args.ksize, args.min_sigma + s,
                          <<o, args.n_orientations>>,
                          (args.min_sigma + s) * args.scale_factor,
                          args.gamma, args.psi)
    ELSE IF args.min_wavelength * IPow(args.scale_factor_r[1], s) = 0
    THEN Raise("ZeroDivisionError")
    ELSE get_log_gabor_kernel(args.ksize,
                              Rat(IPow(args.scale_factor_r[2], s),
                                  args.min_wavelength * IPow(args.scale_factor_r[1], s)),
                              <<o, args.n_orientations>>,
                              args.sigma_over_f, args.sigma_theta0)

PairFails(p) == ExpectedKernel(p[1], p[2]).err # NoError

Before(p, q) == p[1] < q[1] \/ (p[1] = q[1] /\ p[2] < q[2])

\* C1: when no pair's kernel call fails, each builder returns exactly
\* n_scales * n_orientations kernels and the element at index
\* s * n_orientations + o is the kernel of scale s and orientation o
\* (theta = 2*pi*o/O; sigma = min_sigma + s, lambda = sigma * scale_factor;
\* f0 = 1 / (min_wavelength * scale_factor ^ s)).
C1_BankOrder ==
    (IsBank /\ Terminal /\ args.n_scales >= 1 /\ args.n_orientations >= 1
       /\ \A p \in Pairs : ~ PairFails(p))
    => /\ pc = "done"
       /\ Len(bank) = args.n_scales * args.n_orientations
       /\ \A p \in Pairs :
            bank[p[1] * args.n_orientations + p[2] + 1]
              = ExpectedKernel(p[1], p[2]).kernel

C1_Witness ==
    /\ op = "gaborbank" /\ pc = "done"
    /\ args.n_scales = 2 /\ args.n_orientations = 3 /\ args.ksize = <<3, 2>>
    /\ Len(bank) = 6
    /\ bank[5] # bank[2] /\ bank[5] # bank[6]

C1_WitnessLog ==
    /\ op = "logbank" /\ pc = "done"
    /\ args.n_scales = 2 /\ args.n_orientations = 2 /\ args.ksize = <<2, 3>>
    /\ Len(bank) = 4
    /\ bank[1] # bank[3] /\ bank[3] # bank[4]

\* C2: when the call for some pair fails, construction stops at the first
\* failing pair: the error reaches the caller, no bank is returned, no later
\* pair is generated, and the kernels appended so far stay local.
C2_FailFast ==
    /\ (IsBank /\ pc # "done") => bank = <<>>
    /\ (IsBank /\ pc = "loop") =>
          \A p \in Pairs : Before(p, <<scale, orientation>>) => ~ PairFails(p)
    /\ (IsBank /\ Terminal) =>
          \A p \in Pairs :
             (PairFails(p) /\ \A q \in Pairs : Before(q, p) => ~ PairFails(q))
             => /\ pc = "raised"
                /\ err # NoError
                /\ <<scale, orientation>> = p
                /\ Len(filters) = p[1] * args.n_orientations + p[2]

C2_Witness ==
    /\ op = "gaborbank" /\ pc = "raised" /\ err = "ZeroDivisionError"
    /\ scale = 1 /\ orientation = 0 /\ args.n_orientations = 2
    /\ Len(filters) = 2 /\ bank = <<>>

C2_WitnessLog ==
    /\ op = "logbank" /\ pc = "raised" /\ scale = 1 /\ Len(filters) > 0
    /\ bank = <<>>

\* C3 (as claimed): _low_pass_filter raises, before building a grid, for
\* every cutoff outside (0, 0.5] (cutoff = 0 included) and every n < 1, and
\* does not raise for cutoff in (0, 0.5] with n >= 1.
C3_LowPassRejects ==
    (op = "lowpass" /\ pc # "start")
    => IF args.cutoff100 <= 0 \/ args.cutoff100 > 50 \/ args.n < 1
       THEN pc = "raised" /\ kernel = EmptyGrid /\ radius = EmptyGrid
       ELSE pc # "raised"

\* C4 (as claimed): get_log_gabor_kernel raises when f0 <= 0,
\* sigma_over_f <= 0 or sigma_theta <= 0, before the low-pass call runs, and
\* returns no kernel.
C4_LogGaborRejects ==
    (op = "loggabor"
       /\ (RatSign(args.f0) <= 0 \/ RatSign(args.sigma_over_f) <= 0
             \/ args.sigma_theta0 <= 0))
    => pc \notin {"lg_product", "done"}

\* C5: get_gabor_kernel raises and returns no kernel whenever sigma = 0,
\* gamma = 0 or lambda = 0, whatever the size and the other parameters.
C5_GaborZeroRejected ==
    (op = "gabor" /\ pc # "start"
       /\ (args.sigma = 0 \/ args.gamma = 0 \/ args.lambd = 0))
    => pc = "raised" /\ err # NoError /\ kernel = EmptyGrid

C5_Witness ==
    /\ op = "gabor" /\ pc = "raised" /\ err = "ZeroDivisionError"
    /\ args.lambd = 0 /\ args.sigma # 0 /\ args.gamma # 0
    /\ Width >= 1 /\ Height >= 1

\* C6 (as claimed): each of the three generators raises, and returns no grid,
\* when width <= 0 or height <= 0.
C6_NonPositiveSizeRejected ==
    (op \in {"gabor", "loggabor", "lowpass"} /\ (Width <= 0 \/ Height <= 0))
    => pc # "done"

\* C7: for cols, rows >= 1 and f0 > 0, sigma_over_f > 0, sigma_theta > 0 the
\* returned Log-Gabor kernel is exactly 0.0 at (floor(rows/2), floor(cols/2)):
\* the radial value there is 0.0 from the reset on, and the product keeps it.
C7_CentreIsZero ==
    (op = "loggabor" /\ Width >= 1 /\ Height >= 1
       /\ RatSign(args.f0) > 0 /\ RatSign(args.sigma_over_f) > 0
       /\ args.sigma_theta0 > 0)
    => /\ pc \in {"lg_angular", "lg_lowpass", "lg_product", "done"}
            => lg_radial.cell[<<Height \div 2, Width \div 2>>] = Zero
       /\ pc = "done" => kernel.cell[<<Height \div 2, Width \div 2>>] = Zero

C7_Witness ==
    /\ op = "loggabor" /\ pc = "done" /\ args.ksize = <<3, 2>>
    /\ RatSign(args.f0) > 0 /\ RatSign(args.sigma_over_f) > 0
    /\ args.sigma_theta0 > 0
    /\ kernel.cell[<<1, 1>>] = Zero
    /\ kernel.cell[<<0, 0>>].c = "pos"

\* C8: for width, height >= 1 the grid returned by each of the three
\* generators has height rows and width columns, and so has every kernel of
\* a returned bank.
C8_Shape ==
    (pc = "done" /\ Width >= 1 /\ Height >= 1)
    => IF IsBank
       THEN \A k \in 1 .. Len(bank) :
               /\ bank[k].rows = Height /\ bank[k].cols = Width
               /\ DOMAIN bank[k].cell = Idx(Height, Width)
       ELSE /\ kernel.rows = Height /\ kernel.cols = Width
            /\ DOMAIN kernel.cell = Idx(Height, Width)

C8_Witness ==
    /\ op = "gabor" /\ pc = "done" /\ args.ksize = <<3, 2>>
    /\ kernel.rows = 2 /\ kernel.cols = 3

C8_WitnessLowPass ==
    /\ op = "lowpass" /\ pc = "done" /\ args.ksize = <<2, 3>>
    /\ kernel.rows = 3 /\ kernel.cols = 2

\* offsets the claim states for a dimension of n cells
ClaimedOffsets(n) ==
    IF n % 2 = 0 THEN (-(n \div 2)) .. ((n \div 2) - 1)
    ELSE (-((n - 1) \div 2)) .. ((n - 1) \div 2)

\* C9: in get_gabor_kernel, for width, height >= 1, the cell at
\* (floor(height/2), floor(width/2)) has offsets (0, 0), rotated coordinates
\* (0, 0) for every theta and value exp(0) * cos(psi); the column offsets are
\* -w/2 .. w/2 - 1 for even w and -(w-1)/2 .. (w-1)/2 for odd w, and likewise
\* for the rows.
C9_GaborCentre ==
    (op = "gabor" /\ pc = "done" /\ Width >= 1 /\ Height >= 1)
    => LET c == cells.cell[<<Height \div 2, Width \div 2>>]
       IN  /\ c.y = 0 /\ c.x = 0
           /\ c.xr = 0 /\ c.yr = 0
           /\ c.value.envNum = 0
           /\ c.value.phNum * 4 = args.psi * c.value.phDen
           /\ kernel.cell[<<Height \div 2, Width \div 2>>] = c.value
           /\ {cells.cell[<<0, j>>].x : j \in 0 .. (Width - 1)} = ClaimedOffsets(Width)
           /\ {cells.cell[<<i, 0>>].y : i \in 0 .. (Height - 1)} = ClaimedOffsets(Height)

C9_Witness ==
    /\ op = "gabor" /\ pc = "done" /\ args.ksize = <<2, 3>>
    /\ args.theta = <<1, 8>> /\ args.psi = 0
    /\ cells.cell[<<1, 1>>].xr = 0 /\ cells.cell[<<1, 1>>].value.phNum = 0
    /\ cells.cell[<<0, 0>>].xr # 0

====
